---------------------------- MODULE Spec2Model ----------------------------
(***************************************************************************)
(* Model of src/src/stats/corr.py: the Xi correlation estimator            *)
(* (CorrelationAnalyzer._get_xicor) and the analyzer built on it           *)
(* (CorrelationAnalyzer.corr -> _get_xicor_score -> _xicordf).             *)
(*                                                                         *)
(* Python values are encoded as pairs <<type, text>> so that `==` and      *)
(* isinstance() can be told apart (1 == True, but 1 is no bool).           *)
(* Floats that the estimator produces are quotients of small integers;     *)
(* they are kept as exact fractions together with the IEEE specials that   *)
(* numpy's division yields on a zero divisor (nan, inf, -inf).             *)
(* Sequences are 1-based here and 0-based in the source.                   *)
(***************************************************************************)
EXTENDS Integers, Sequences, FiniteSets, TLC

VARIABLES
    pc,            \* "call": the call is about to run; "done": it has returned or raised
    x, y,          \* arguments of _get_xicor
    ties,          \* argument `ties` (of _get_xicor, and of corr)
    y_sorted,      \* y = y[np.argsort(x)] in _get_xicor (<<>>: line 221 never ran)
    result,        \* outcome of _get_xicor
    data,          \* argument of corr: column name -> column values
    variable_col,  \* argument of corr
    target_col,    \* argument of corr
    method,        \* argument of corr
    ys_sorted,     \* column -> y[np.argsort(x)] for each column ranked under corr
    out            \* outcome of corr

vars == <<pc, x, y, ties, y_sorted, result, data, variable_col, target_col,
          method, ys_sorted, out>>

---------------------------------------------------------------------------
(* Bounds of the model *)

MaxLen == 3
MaxVal == 3
MaxX == 2
MaxRows == 3
MaxVars == 2

SeqsOfLen(S, n) == [1..n -> S]
SeqsUpTo(S, n) == UNION {SeqsOfLen(S, k) : k \in 0..n}

Values == 1..MaxVal

---------------------------------------------------------------------------
(* Python values *)

PyAuto == <<"str", "auto">>
PyTrue == <<"bool", "True">>
PyFalse == <<"bool", "False">>
PyYes == <<"str", "yes">>
PyOne == <<"int", "1">>

TiesValues == {PyAuto, PyTrue, PyFalse, PyYes, PyOne}

isinstance_bool(v) == v[1] = "bool"

---------------------------------------------------------------------------
(* Floats *)

Abs(a) == IF a < 0 THEN -a ELSE a

RECURSIVE Gcd(_, _)
Gcd(a, b) == IF b = 0 THEN a ELSE Gcd(b, a % b)

NaN == [kind |-> "nan", num |-> 0, den |-> 1]
PosInf == [kind |-> "inf", num |-> 0, den |-> 1]
NegInf == [kind |-> "-inf", num |-> 0, den |-> 1]

Frac(a, b) ==
    LET s == IF b < 0 THEN -1 ELSE 1
        g == Gcd(Abs(a), Abs(b))
    IN  [kind |-> "finite", num |-> (s * a) \div g, den |-> (s * b) \div g]

(* a / b on numpy integers: a zero divisor gives nan or an infinity *)
true_divide(a, b) ==
    IF b = 0
    THEN (IF a = 0 THEN NaN ELSE IF a > 0 THEN PosInf ELSE NegInf)
    ELSE Frac(a, b)

(* 1 - q *)
one_minus(q) ==
    CASE q.kind = "nan" -> NaN
      [] q.kind = "inf" -> NegInf
      [] q.kind = "-inf" -> PosInf
      [] OTHER -> Frac(q.den - q.num, q.den)

(* a < b on floats; every comparison with nan is false *)
float_lt(a, b) ==
    CASE a.kind = "nan" \/ b.kind = "nan" -> FALSE
      [] a.kind = "inf" -> FALSE
      [] b.kind = "-inf" -> FALSE
      [] a.kind = "-inf" -> TRUE
      [] b.kind = "inf" -> TRUE
      [] OTHER -> a.num * b.den < b.num * a.den

---------------------------------------------------------------------------
(* numpy / scipy helpers *)

RECURSIVE sum_to(_, _)
sum_to(s, k) == IF k = 0 THEN 0 ELSE s[k] + sum_to(s, k - 1)

np_sum(s) == sum_to(s, Len(s))

np_diff(r) == [i \in 1..(IF Len(r) = 0 THEN 0 ELSE Len(r) - 1) |-> r[i + 1] - r[i]]

np_abs(s) == [i \in 1..Len(s) |-> Abs(s[i])]

np_unique(s) == {s[i] : i \in 1..Len(s)}

Perms(n) == {p \in [1..n -> 1..n] : \A i, j \in 1..n : p[i] = p[j] => i = j}

(* np.argsort(x): the default kind is not stable, so any permutation that *)
(* puts x in ascending order is a possible answer *)
is_ascending(s, p) == \A i \in 1..(Len(s) - 1) : s[p[i]] <= s[p[i + 1]]

argsort(s) == {p \in Perms(Len(s)) : is_ascending(s, p)}

RECURSIVE take_to(_, _, _)
take_to(s, p, k) == IF k = 0 THEN <<>> ELSE Append(take_to(s, p, k - 1), s[p[k]])

(* s[p] *)
take(s, p) == take_to(s, p, Len(p))

(* the values y[np.argsort(x)] can have *)
reorderings(xx, yy) == {take(yy, p) : p \in argsort(xx)}

(* rankdata(s, method="ordinal"): ties get distinct ranks in order of appearance *)
rankdata_ordinal(s) ==
    [i \in 1..Len(s) |->
        1 + Cardinality({j \in 1..Len(s) : s[j] < s[i]})
          + Cardinality({j \in 1..(i - 1) : s[j] = s[i]})]

(* rankdata(s, method="max"): a tied group gets the largest rank in the group *)
rankdata_max(s) ==
    [i \in 1..Len(s) |-> Cardinality({j \in 1..Len(s) : s[j] <= s[i]})]

---------------------------------------------------------------------------
(* CorrelationAnalyzer._get_xicor *)

NoValue == [kind |-> "none", num |-> 0, den |-> 1]

Raise(e, m) == [raised |-> e, message |-> m, ties |-> "none", statistic |-> NoValue,
                p_value |-> [kind |-> "none", at |-> NoValue, n |-> 0]]

length_message(xx, yy) == <<"x, y length mismatch: ", Len(xx), Len(yy)>>

ties_message(t) ==
    <<"Expected ties to be either 'auto' or boolean, got ", t[2], t[1], " instead">>

(* mutant: `<=` for `<` in the auto test *)
resolve_ties_le(yy, t) ==
    IF t = PyAuto THEN Cardinality(np_unique(yy)) <= Len(yy) ELSE t = PyTrue

(* ties == "auto" -> len(np.unique(y)) < n ; otherwise the boolean given *)
resolve_ties(yy, t) ==
    IF t = PyAuto THEN Cardinality(np_unique(yy)) < Len(yy) ELSE t = PyTrue

(* mutant: `ties not in ("auto", True, False)`, which lets 1 through (1 == True) *)
invalid_ties_by_equality(t) == t \notin {PyAuto, PyTrue, PyFalse, PyOne}

invalid_ties(t) == t # PyAuto /\ ~isinstance_bool(t)

(* mutant: the absolute value is dropped *)
nominator0_no_abs(r) == np_sum(np_diff(r))

nominator0(r) == np_sum(np_abs(np_diff(r)))

(* mutant: the factor 2 is dropped *)
ties_denominator_half(l, n) == np_sum([i \in 1..Len(l) |-> l[i] * (n - l[i])])

ties_denominator(l, n) == 2 * np_sum([i \in 1..Len(l) |-> l[i] * (n - l[i])])

noties_denominator(n) == n * n - 1

ties_nominator(s, n) == s * n

noties_nominator(s) == s * 3

(* norm.sf(statistic, scale=2/5/sqrt(n)): kept symbolic; nan in, nan out *)
norm_sf(statistic, n) ==
    IF statistic.kind = "nan"
    THEN [kind |-> "nan", at |-> statistic, n |-> n]
    ELSE [kind |-> "sf", at |-> statistic, n |-> n]

(* lines 223-233, from r = rankdata(y, "ordinal") and l = rankdata(y, "max") *)
statistic_of(r, l, n, t) ==
    one_minus(true_divide(
        IF t THEN ties_nominator(nominator0(r), n) ELSE noties_nominator(nominator0(r)),
        IF t THEN ties_denominator(l, n) ELSE noties_denominator(n)))

(* lines 222-233, with the resolved `ties` t (a boolean) and ys = y[np.argsort(x)] *)
ranked_statistic(ys, t) ==
    statistic_of(rankdata_ordinal(ys), rankdata_max(ys), Len(ys), t)

returned(statistic, t, n) ==
    [raised |-> "none", message |-> <<>>, ties |-> IF t THEN "True" ELSE "False",
     statistic |-> statistic, p_value |-> norm_sf(statistic, n)]

xicor_return(ys, t) == returned(ranked_statistic(ys, t), t, Len(ys))

(* TRUE iff the call raises before line 221 *)
raises_early(xx, yy, t) == Len(xx) # Len(yy) \/ invalid_ties(t)

(* mutant: `ties` is validated before the lengths are compared *)
get_xicor_ties_first(xx, yy, t, ys) ==
    IF invalid_ties(t) THEN Raise("ValueError", ties_message(t))
    ELSE IF Len(xx) # Len(yy) THEN Raise("IndexError", length_message(xx, yy))
    ELSE xicor_return(ys, resolve_ties(yy, t))

get_xicor(xx, yy, t, ys) ==
    IF Len(xx) # Len(yy) THEN Raise("IndexError", length_message(xx, yy))
    ELSE IF invalid_ties(t) THEN Raise("ValueError", ties_message(t))
    ELSE xicor_return(ys, resolve_ties(yy, t))

---------------------------------------------------------------------------
(* The estimator called on its own *)

NoOut == [kind |-> "none"]

InitXi ==
    /\ pc = "call"
    /\ x \in SeqsUpTo(1..MaxX, MaxLen)
    /\ y \in SeqsUpTo(Values, MaxLen)
    /\ ties \in TiesValues
    /\ y_sorted = <<>>
    /\ result = Raise("pending", <<>>)
    /\ data = <<>>
    /\ variable_col = <<>>
    /\ target_col = "t"
    /\ method = "xicor"
    /\ ys_sorted = <<>>
    /\ out = NoOut

call_get_xicor ==
    /\ pc = "call"
    /\ \E ys \in (IF raises_early(x, y, ties) THEN {<<>>} ELSE reorderings(x, y)) :
          /\ y_sorted' = ys
          /\ result' = get_xicor(x, y, ties, ys)
    /\ pc' = "done"
    /\ UNCHANGED <<x, y, ties, data, variable_col, target_col, method, ys_sorted, out>>

NextXi == call_get_xicor

SpecXi == InitXi /\ [][NextXi]_vars

---------------------------------------------------------------------------
(* CorrelationAnalyzer.corr and the Xi score table *)

ColumnNames == {"a", "t"}

Methods == {"scatter", "pearson", "kendall", "spearman", "ppscore", "xicor",
            "bogus", "Xi"}

CorrTies == {PyAuto, PyTrue, PyFalse, PyYes}

(* cells take two values: enough for columns with and without repeats; the *)
(* estimator on its own is run over more values                            *)
CellValues == {1, 2}

Tables == UNION {[ColumnNames -> SeqsOfLen(CellValues, n)] : n \in 0..MaxRows}

Range(s) == {s[i] : i \in 1..Len(s)}

RECURSIVE Reverse(_)
Reverse(s) == IF s = <<>> THEN <<>> ELSE Append(Reverse(Tail(s)), Head(s))

score_record(r, x_col, y_col) ==
    [raised |-> r.raised, message |-> r.message, x |-> x_col, y |-> y_col,
     xicor |-> r.statistic, p_value |-> r.p_value]

(* _xicordf: one score record, or the error _get_xicor raised *)
xicordf(d, x_col, y_col, t, ys) ==
    score_record(get_xicor(d[x_col], d[y_col], t, ys), x_col, y_col)

(* insert item e into a list sorted ascending by key 'xicor', after every *)
(* item that is not greater than it (only `<` is ever asked of the keys)  *)
RECURSIVE insort(_, _)
insort(s, e) ==
    IF s = <<>> THEN <<e>>
    ELSE IF float_lt(e.xicor, s[Len(s)].xicor)
         THEN Append(insort(SubSeq(s, 1, Len(s) - 1), e), s[Len(s)])
         ELSE Append(s, e)

RECURSIVE stable_sort(_)
stable_sort(s) ==
    IF s = <<>> THEN <<>>
    ELSE insort(stable_sort(SubSeq(s, 1, Len(s) - 1)), s[Len(s)])

(* mutant: reverse=True is forgotten *)
sort_ascending(s) == stable_sort(s)

(* mutant: sorted ascending and then reversed, which turns equal keys around *)
sort_then_reverse(s) == Reverse(stable_sort(s))

(* list.sort(key=..., reverse=True): the list is reversed, sorted stably in *)
(* ascending order and reversed again, so equal keys keep their order       *)
sort_reverse(s) == Reverse(stable_sort(Reverse(s)))

XicorColumns == <<"col1", "col2", "xicor">>

Raised(e, m) == [kind |-> e, columns |-> <<>>, rows |-> <<>>, message |-> m]

(* line 139: the list of score records, one per entry of variable_col, up to *)
(* entry k; ord[c] is the target column in the order np.argsort(column c)    *)
RECURSIVE xicor_scores(_, _, _, _, _, _)
xicor_scores(d, vcol, tcol, t, ord, k) ==
    IF k = 0 THEN <<>>
    ELSE Append(xicor_scores(d, vcol, tcol, t, ord, k - 1),
                xicordf(d, vcol[k], tcol, t,
                        IF vcol[k] \in DOMAIN ord THEN ord[vcol[k]] ELSE <<>>))

(* lines 142-147: columns y, x, xicor of the sorted scores, renamed *)
score_table(sorted) ==
    [kind |-> "table", columns |-> XicorColumns,
     rows |-> [i \in 1..Len(sorted) |->
                  [col1 |-> sorted[i].y, col2 |-> sorted[i].x, xicor |-> sorted[i].xicor]],
     message |-> <<>>]

(* the first exception raised while the scores are collected ends the call *)
first_raised(scores) ==
    scores[CHOOSE i \in 1..Len(scores) :
              /\ scores[i].raised # "none"
              /\ \A j \in 1..(i - 1) : scores[j].raised = "none"]

scores_to_table(scores) ==
    IF \E i \in 1..Len(scores) : scores[i].raised # "none"
    THEN Raised(first_raised(scores).raised, first_raised(scores).message)
    ELSE score_table(sort_reverse(scores))

(* _get_xicor_score *)
get_xicor_score(d, vcol, tcol, t, ord) ==
    scores_to_table(xicor_scores(d, vcol, tcol, t, ord, Len(vcol)))

(* results of the library calls (altair, pandas, ppscore) are not modelled: *)
(* only which routine produced them and the columns the code names          *)
External(k, cols) == [kind |-> k, columns |-> cols, rows |-> <<>>, message |-> <<>>]

unsupported_message(m) ==
    <<"Unsupported method: ", m,
      ". Choose from 'pearson', 'kendall', 'spearman', 'ppscore', or 'xicor'.">>

(* mutant: an unknown method falls back to the linear correlation *)
corr_fallback(d, vcol, tcol, m, t, ord) ==
    IF m = "scatter" THEN External("chart", <<>>)
    ELSE IF m = "ppscore"
         THEN External("ppscore", <<"col1", "col2", "ppscore">>)
    ELSE IF m = "xicor" THEN get_xicor_score(d, vcol, tcol, t, ord)
    ELSE External("correlation", <<"col1", "col2", "correlation">>)

corr(d, vcol, tcol, m, t, ord) ==
    IF m = "scatter" THEN External("chart", <<>>)
    ELSE IF m \in {"pearson", "kendall", "spearman"}
         THEN External("correlation", <<"col1", "col2", "correlation">>)
    ELSE IF m = "ppscore"
         THEN External("ppscore", <<"col1", "col2", "ppscore">>)
    ELSE IF m = "xicor" THEN get_xicor_score(d, vcol, tcol, t, ord)
    ELSE Raised("ValueError", unsupported_message(m))

(* the columns np.argsort is evaluated on during the call *)
ranked_columns(vcol, m, t) ==
    IF m = "xicor" /\ ~invalid_ties(t) THEN Range(vcol) ELSE {}

argsort_choices(d, cols, tcol) ==
    {f \in [cols -> UNION {reorderings(d[c], d[tcol]) : c \in cols}] :
        \A c \in cols : f[c] \in reorderings(d[c], d[tcol])}

InitCorr ==
    /\ pc = "call"
    /\ x = <<>>
    /\ y = <<>>
    /\ y_sorted = <<>>
    /\ result = Raise("pending", <<>>)
    /\ data \in Tables
    /\ variable_col \in SeqsUpTo(ColumnNames, MaxVars)
    /\ target_col = "t"
    /\ method \in Methods
    \* `ties` is read on the Xi path only; the other methods are called with its default
    /\ ties \in (IF method = "xicor" THEN CorrTies ELSE {PyAuto})
    /\ ys_sorted = <<>>
    /\ out = NoOut

call_corr ==
    /\ pc = "call"
    /\ \E ord \in argsort_choices(data, ranked_columns(variable_col, method, ties),
                                 target_col) :
          /\ ys_sorted' = ord
          /\ out' = corr(data, variable_col, target_col, method, ties, ord)
    /\ pc' = "done"
    /\ UNCHANGED <<x, y, ties, y_sorted, result, data, variable_col, target_col, method>>

NextCorr == call_corr

SpecCorr == InitCorr /\ [][NextCorr]_vars

---------------------------------------------------------------------------
(* Properties of the estimator, checked under SpecXi *)

Returned == pc = "done" /\ result.raised = "none"

N == Len(y)

ValidTies == {PyAuto, PyTrue, PyFalse}

HasRepeat(s) == \E i, j \in 1..Len(s) : i # j /\ s[i] = s[j]

StrictlyIncreasing(s) == \A i \in 1..(Len(s) - 1) : s[i] < s[i + 1]

StrictlyDecreasing(s) == \A i \in 1..(Len(s) - 1) : s[i] > s[i + 1]

One == [kind |-> "finite", num |-> 1, den |-> 1]

(* C1: whenever len(x) # len(y), whatever `ties` is, the call ends with the *)
(* length-mismatch error (IndexError) and no statistic or p-value.          *)
C1_LengthMismatchRaises ==
    (pc = "done" /\ Len(x) # Len(y)) =>
        /\ result.raised = "IndexError"
        /\ result.statistic = NoValue
        /\ result.p_value.kind = "none"

C1_Witness ==
    /\ pc = "done"
    /\ Len(x) # Len(y)
    /\ ties = PyYes
    /\ result.raised = "IndexError"

(* C2: for equal lengths and a `ties` that is none of 'auto', True, False, *)
(* the call ends with ValueError, nothing is returned and line 221 was     *)
(* never reached (no sorting or ranking took place).                       *)
C2_InvalidTiesRaises ==
    (pc = "done" /\ Len(x) = Len(y) /\ ties \notin ValidTies) =>
        /\ result.raised = "ValueError"
        /\ result.statistic = NoValue
        /\ result.p_value.kind = "none"
        /\ y_sorted = <<>>

C2_Witness ==
    /\ pc = "done"
    /\ Len(x) = MaxLen /\ Len(y) = MaxLen
    /\ ties = PyOne
    /\ result.raised = "ValueError"

(* C3: for n = len(x) = len(y) < 2 and a valid `ties`, the call ends with *)
(* an error instead of returning a statistic.                              *)
C3_DegenerateInputRaises ==
    (pc = "done" /\ Len(x) = N /\ N < 2 /\ ties \in ValidTies) =>
        result.raised # "none"

(* C4: for n >= 2 and a valid `ties`, the call returns a statistic that is a *)
(* number <= 1 and a p-value that is a probability; the divisor is not zero. *)
C4_StatisticDefined ==
    (pc = "done" /\ Len(x) = N /\ N >= 2 /\ ties \in ValidTies) =>
        /\ result.raised = "none"
        /\ result.statistic.kind = "finite"
        /\ ~float_lt(One, result.statistic)
        /\ result.p_value.kind = "sf"
        /\ (IF result.ties = "True"
            THEN ties_denominator(rankdata_max(y_sorted), N)
            ELSE noties_denominator(N)) # 0

(* C5 as stated: when y in the ascending order of x is strictly monotone, *)
(* the statistic returned is 1, for every n >= 2.                          *)
C5_MonotoneGivesOne ==
    (Returned /\ N >= 2
       /\ (StrictlyIncreasing(y_sorted) \/ StrictlyDecreasing(y_sorted))) =>
        result.statistic = One

(* C5 as amended: when y in the ascending order of x is strictly monotone, *)
(* the statistic returned is 1 - 3/(n+1) = (n-2)/(n+1), for every n >= 2   *)
(* and every valid `ties`.                                                  *)
C5_MonotoneStatistic ==
    (Returned /\ N >= 2
       /\ (StrictlyIncreasing(y_sorted) \/ StrictlyDecreasing(y_sorted))) =>
        /\ result.statistic.kind = "finite"
        /\ result.statistic.num * (N + 1) = (N - 2) * result.statistic.den

C5_Witness ==
    /\ Returned
    /\ N = MaxLen
    /\ StrictlyDecreasing(y_sorted)
    /\ result.statistic.num * (N + 1) = (N - 2) * result.statistic.den

(* C6: with ties = 'auto' the max-ranking branch is taken iff some value of y *)
(* is repeated, whatever x holds, and the result is the one ties = True gives  *)
(* in that case and the one ties = False gives otherwise.                      *)
C6_AutoFollowsY ==
    (pc = "done" /\ Len(x) = N /\ ties = PyAuto) =>
        /\ result.raised = "none"
        /\ (result.ties = "True") <=> HasRepeat(y)
        /\ result = get_xicor(x, y, IF HasRepeat(y) THEN PyTrue ELSE PyFalse, y_sorted)

C6_Witness ==
    /\ Returned
    /\ ties = PyAuto
    /\ N = MaxLen
    /\ HasRepeat(x) /\ ~HasRepeat(y)
    /\ result.ties = "False"
    /\ result.statistic.kind = "finite"

(* C10: when all values of y are distinct and n >= 2, the statistic returned *)
(* with ties = True or ties = False is also the statistic of the other      *)
(* branch: n*S / (2*sum l*(n-l)) = 3*S / (n^2 - 1).                          *)
C10_BranchesAgreeWithoutTies ==
    (Returned /\ N >= 2 /\ ~HasRepeat(y) /\ ties \in {PyTrue, PyFalse}) =>
        /\ result.statistic.kind = "finite"
        /\ result.statistic =
             get_xicor(x, y, IF ties = PyTrue THEN PyFalse ELSE PyTrue, y_sorted).statistic
        /\ ties_nominator(nominator0(rankdata_ordinal(y_sorted)), N)
             * noties_denominator(N)
           = noties_nominator(nominator0(rankdata_ordinal(y_sorted)))
             * ties_denominator(rankdata_max(y_sorted), N)

C10_Witness ==
    /\ Returned
    /\ ties = PyTrue
    /\ N = MaxLen
    /\ ~HasRepeat(y)
    /\ result.statistic.num < 0

---------------------------------------------------------------------------
(* Properties of the analyzer, checked under SpecCorr *)

SupportedMethods == {"scatter", "pearson", "kendall", "spearman", "ppscore", "xicor"}

Rows == out.rows

(* the floats a and b are equal (nan equals nothing) *)
float_eq(a, b) == a.kind # "nan" /\ a = b

(* pi matches every row with an entry of variable_col and its score *)
Matches(pi) ==
    \A i \in 1..Len(Rows) :
        /\ Rows[i].col2 = variable_col[pi[i]]
        /\ Rows[i].xicor =
             get_xicor(data[variable_col[pi[i]]], data[target_col], ties,
                       ys_sorted[variable_col[pi[i]]]).statistic

C8_UnsupportedMethod ==
    pc = "done" =>
        /\ method \notin SupportedMethods =>
              /\ out.kind = "ValueError"
              /\ out.message[1] = "Unsupported method: "
              /\ out.message[2] = method
              /\ out.rows = <<>> /\ out.columns = <<>>
        /\ out.kind \in {"chart", "correlation", "ppscore", "table"} =>
              method \in SupportedMethods

C8_Witness ==
    /\ pc = "done"
    /\ method = "bogus"
    /\ out.kind = "ValueError"
    /\ out.message[2] = "bogus"

(* C9: in the Xi table, rows with equal scores are in the order their      *)
(* variables have in variable_col.                                         *)
C9_SortIsStable ==
    (pc = "done" /\ method = "xicor" /\ out.kind = "table") =>
        \E pi \in Perms(Len(variable_col)) :
            /\ Matches(pi)
            /\ \A i, j \in 1..Len(Rows) :
                  (i < j /\ float_eq(Rows[i].xicor, Rows[j].xicor)) => pi[i] < pi[j]

C9_Witness ==
    /\ pc = "done" /\ method = "xicor" /\ out.kind = "table"
    /\ variable_col = <<"a", "t">>
    /\ Len(Rows) = 2
    /\ Len(data["t"]) = MaxRows
    /\ data["a"] # data["t"]
    /\ Rows[1].col2 = "a" /\ Rows[2].col2 = "t"
    /\ Rows[1].xicor.kind = "finite"
    /\ float_eq(Rows[1].xicor, Rows[2].xicor)

=============================================================================
